---- MODULE Spec2Model ----
(***************************************************************************)
(* Model of the clinical-record API: password hashing, JWT issuance and    *)
(* verification (auth.py), the dependency chain that turns a bearer token  *)
(* into an active user (auth.py), and the routes of main.py: /registro,    *)
(* /token, /usuarios/me, /paciente, /pacientes.                            *)
(*                                                                         *)
(* Time is counted in whole minutes.  python-jose writes the "exp" claim   *)
(* as an integer timestamp and compares it with the integer clock, so an   *)
(* integer clock is the clock the code sees.                               *)
(***************************************************************************)
EXTENDS Integers, FiniteSets, Sequences, TLC

VARIABLES
    now,        \* datetime.utcnow(), in minutes
    usuarios,   \* table usuario: the User Directory
    emitidos,   \* log of the calls of crear_access_token: token, time, ttl, caller
    dec,        \* the last direct jwt.decode of a token (SpecToken)
    resp,       \* the last response of POST /registro or POST /token
    tablas,     \* committed rows of paciente, alergia, enfermedad and the link tables
    req,        \* the guarded request in flight (GET /usuarios/me, POST /paciente, GET /pacientes)
    regs        \* POST /registro requests in flight on several workers (SpecConc)

vars == <<now, usuarios, emitidos, dec, resp, tablas, req, regs>>

----------------------------------------------------------------------------
(* Bounds and program constants *)

\* auth.py:13, 15
SECRET_KEY == "tu_clave_secreta_super_segura_cambiala_en_produccion"
ACCESS_TOKEN_EXPIRE_MINUTES == 30
\* auth.py:63, timedelta(minutes=15)
DEFAULT_EXPIRE_MINUTES == 15

\* A key that is not the server's: what a forger signs with.
OTRA_CLAVE == "clave_del_atacante"

\* The instants at which the clock is observed (minutes): around the expiry
\* of a token issued at 0 with either ttl, and the two ends of a login token.
Instantes == {0, 15, 29, 30, 31, 45}
InstantesLogin == {0, 30, 31}
InstantesAuth == {0, 30}

\* Usernames; the empty string is a str like any other for UsuarioCreate.
Names == {"", "ana"}
Emails == {"a@x.com", "b@x.com"}
Passwords == {"pw123", "otra"}
\* argon2 draws a fresh salt on every hash
Salts == {"s1", "s2"}

\* payload.get("sub") of a payload without "sub"
Ausente == "<None>"
Subs == Names \cup {Ausente}

\* timedelta | None
None == [some |-> FALSE, v |-> 0]
Some(v) == [some |-> TRUE, v |-> v]
TTLs == {None, Some(0), Some(15), Some(30)}

\* how many tokens are issued in one run
MaxEmitidos == 2
\* how many patients the table holds, and how long a request's lists are
MaxPacientes == 1
MaxLista == 2
\* how many POST /registro requests run at the same time
MaxRegs == 2

----------------------------------------------------------------------------
(* Credential Hasher: auth.py:18, 49-55 *)

\* pwd_context.hash: argon2 with a fresh salt; the hash embeds the salt.
obtener_password_hash(password, salt) ==
    [alg |-> "argon2", salt |-> salt, pw |-> password]

\* pwd_context.verify: recomputes with the embedded salt and compares.
verificar_password(plain_password, hashed_password) ==
    /\ hashed_password.alg = "argon2"
    /\ obtener_password_hash(plain_password, hashed_password.salt) = hashed_password

----------------------------------------------------------------------------
(* Token Codec: auth.py:57-66 and the jwt.decode of auth.py:95 *)

\* HMAC-SHA256 of the claims under a key: equal exactly when key and
\* claims are equal; alt marks a signature segment altered after signing.
HS256(key, claims) ==
    [key |-> key, sub |-> claims.sub, exp |-> claims.exp, alt |-> FALSE]

\* jwt.encode(to_encode, key, algorithm=ALGORITHM)
jwt_encode(claims, key) ==
    [forma |-> "jwt", claims |-> claims, firma |-> HS256(key, claims)]

\* "if expires_delta:" is the truth value of the argument: None and
\* timedelta(0) are both false.
Truthy(expires_delta) == expires_delta.some /\ expires_delta.v # 0

\* crear_access_token(data, expires_delta) called at time t; data is {"sub": sub}
\* (or {} when sub = Ausente).
crear_access_token(sub, expires_delta, t) ==
    LET expire == IF Truthy(expires_delta)
                  THEN t + expires_delta.v
                  ELSE t + DEFAULT_EXPIRE_MINUTES
    IN jwt_encode([sub |-> sub, exp |-> expire], SECRET_KEY)

DecodeOk(claims) == [ok |-> TRUE, error |-> "", sub |-> claims.sub, exp |-> claims.exp]
DecodeError(e) == [ok |-> FALSE, error |-> e, sub |-> Ausente, exp |-> 0]

\* python-jose's expiry test, _validate_exp: the token is refused when
\* exp < now, so it is still accepted at the instant now = exp.
Expirado(exp, t) == exp < t

\* jwt.decode(token, key, algorithms=[ALGORITHM]) at time t: structure,
\* then signature, then the exp claim.  Every failure is a JWTError.
jwt_decode(token, key, t) ==
    IF token.forma # "jwt" THEN DecodeError("Malformed")
    ELSE IF token.firma # HS256(key, token.claims) THEN DecodeError("InvalidSignature")
    ELSE IF Expirado(token.claims.exp, t) THEN DecodeError("Expired")
    ELSE DecodeOk(token.claims)

\* Tokens the server never issued: signed with another key, with claims
\* changed after signing, with an altered signature segment, or not a JWT.
Forjados ==
    LET cs == [sub : {"ana"}, exp : {15, 45}]
    IN  {jwt_encode(c, OTRA_CLAVE) : c \in cs}
        \cup {[forma |-> "jwt", claims |-> c,
               firma |-> [HS256(SECRET_KEY, c) EXCEPT !.alt = TRUE]] : c \in cs}
        \cup {[forma |-> "jwt", claims |-> [c EXCEPT !.exp = 45],
               firma |-> HS256(SECRET_KEY, c)] : c \in {x \in cs : x.exp = 15}}
        \cup {[forma |-> "malformado", claims |-> c, firma |-> HS256(SECRET_KEY, c)]
                 : c \in {x \in cs : x.exp = 45}}

NoToken == [forma |-> "", claims |-> [sub |-> Ausente, exp |-> 0],
            firma |-> [key |-> "", sub |-> Ausente, exp |-> 0, alt |-> FALSE]]

----------------------------------------------------------------------------
(* User Directory: table usuario *)

NoUsuario == [usuarioID |-> 0, username |-> Ausente, email |-> "",
              hashed_password |-> obtener_password_hash("", ""), activo |-> FALSE]

\* select(Usuario).where(Usuario.username == username) ... .first()
obtener_usuario_por_username(dir, username) ==
    IF \E u \in dir : u.username = username
    THEN CHOOSE u \in dir : u.username = username /\
                             \A w \in dir : w.username = username => u.usuarioID <= w.usuarioID
    ELSE NoUsuario

\* The email is compared with the username column.
obtener_usuario_por_email_Columna(dir, email) ==
    obtener_usuario_por_username(dir, email)

\* select(Usuario).where(Usuario.email == email) ... .first()
obtener_usuario_por_email(dir, email) ==
    IF \E u \in dir : u.email = email
    THEN CHOOSE u \in dir : u.email = email /\
                             \A w \in dir : w.email = email => u.usuarioID <= w.usuarioID
    ELSE NoUsuario

\* the next autoincrement primary key
NextID(rows, campo) ==
    IF rows = {} THEN 1
    ELSE 1 + (CHOOSE m \in {r[campo] : r \in rows} : \A r \in rows : r[campo] <= m)

\* The password is not verified.
autenticar_usuario_SinVerificar(dir, username, password) ==
    obtener_usuario_por_username(dir, username)

\* autenticar_usuario(session, username, password)
autenticar_usuario(dir, username, password) ==
    LET usuario == obtener_usuario_por_username(dir, username)
    IN  IF usuario = NoUsuario THEN NoUsuario
        ELSE IF ~verificar_password(password, usuario.hashed_password) THEN NoUsuario
        ELSE usuario

----------------------------------------------------------------------------
(* Responses of the unguarded routes *)

NoResp == [op |-> "", status |-> 0, detail |-> "", www |-> FALSE,
           token |-> NoToken, token_type |-> "", usuario |-> NoUsuario,
           username |-> "", email |-> "", password |-> ""]

\* The response of the route `op` to the request (username, email, password):
\* status, detail, the WWW-Authenticate: Bearer header, and the body (Token or
\* UsuarioResponse).
Respuesta(op, username, email, password, status, detail, www, token, usuario) ==
    [op |-> op, status |-> status, detail |-> detail, www |-> www, token |-> token,
     token_type |-> IF token = NoToken THEN "" ELSE "bearer", usuario |-> usuario,
     username |-> username, email |-> email, password |-> password]

----------------------------------------------------------------------------
(* The clock and the directory's administrator *)

\* Time passes: the clock is next read at a later instant of T.
Tick(T) ==
    /\ \E t \in T : t > now /\ now' = t
    /\ UNCHANGED <<usuarios, emitidos, dec, resp, tablas, req, regs>>

\* The directory's active flag is flipped to false by its administrator
\* (the API has no route for it; the guard reads it on every request).
desactivar_usuario(username) ==
    /\ \E u \in usuarios :
          /\ u.username = username
          /\ u.activo
          /\ usuarios' = (usuarios \ {u}) \cup {[u EXCEPT !.activo = FALSE]}
    /\ UNCHANGED <<now, emitidos, dec, resp, tablas, req, regs>>

----------------------------------------------------------------------------
(* POST /registro: main.py:33-67 *)

\* Usuario(username=..., email=..., hashed_password=..., activo=True) after
\* commit and refresh: the primary key is assigned by the table.
NuevoUsuario(dir, username, email, password, salt) ==
    [usuarioID |-> NextID(dir, "usuarioID"), username |-> username, email |-> email,
     hashed_password |-> obtener_password_hash(password, salt), activo |-> TRUE]

registrar_usuario(username, email, password, salt) ==
    /\ IF obtener_usuario_por_username(usuarios, username) # NoUsuario
       THEN /\ resp' = Respuesta("registro", username, email, password,
                                 400, "El usuario ya existe", FALSE, NoToken, NoUsuario)
            /\ UNCHANGED usuarios
       ELSE IF obtener_usuario_por_email(usuarios, email) # NoUsuario
       THEN /\ resp' = Respuesta("registro", username, email, password,
                                 400, "El email ya esta registrado", FALSE, NoToken, NoUsuario)
            /\ UNCHANGED usuarios
       ELSE LET usuario == NuevoUsuario(usuarios, username, email, password, salt)
            IN  /\ usuarios' = usuarios \cup {usuario}
                /\ resp' = Respuesta("registro", username, email, password,
                                     200, "", FALSE, NoToken, usuario)
    /\ UNCHANGED <<now, emitidos, dec, tablas, req, regs>>

----------------------------------------------------------------------------
(* POST /token: main.py:69-87 *)

\* One call of crear_access_token, as the log keeps it.
Emision(token, ttl, por) == [tok |-> token, t0 |-> now, ttl |-> ttl, por |-> por]

login(username, password) ==
    LET usuario == autenticar_usuario(usuarios, username, password)
    IN  /\ IF usuario = NoUsuario
           THEN /\ resp' = Respuesta("token", username, "", password,
                                     401, "Usuario o contrasena incorrectos", TRUE,
                                     NoToken, NoUsuario)
                /\ UNCHANGED emitidos
           ELSE LET access_token_expires == Some(ACCESS_TOKEN_EXPIRE_MINUTES)
                    access_token == crear_access_token(usuario.username,
                                                       access_token_expires, now)
                    e == Emision(access_token, access_token_expires, "login")
                IN  /\ (e \in emitidos \/ Cardinality(emitidos) < MaxEmitidos)
                    /\ emitidos' = emitidos \cup {e}
                    /\ resp' = Respuesta("token", username, "", password,
                                         200, "", FALSE, access_token, NoUsuario)
        /\ UNCHANGED <<now, usuarios, dec, tablas, req, regs>>

\* OAuth2PasswordRequestForm: an empty form field is a missing field, so the
\* handler never sees an empty username.
LoginNames == (Names \cup {"bob"}) \ {""}

----------------------------------------------------------------------------
(* Direct use of the Token Codec *)

\* crear_access_token(data, expires_delta) called by any other caller
emitir(sub, expires_delta) ==
    LET e == Emision(crear_access_token(sub, expires_delta, now), expires_delta, "directo")
    IN  /\ (e \in emitidos \/ Cardinality(emitidos) < MaxEmitidos)
        /\ emitidos' = emitidos \cup {e}
        /\ UNCHANGED <<now, usuarios, dec, resp, tablas, req, regs>>

NoDec == [tok |-> NoToken, en |-> 0, res |-> DecodeError("")]

\* jwt.decode(token, SECRET_KEY, algorithms=[ALGORITHM]) of an issued or a
\* forged token, at the current time
decodificar(token) ==
    /\ dec' = [tok |-> token, en |-> now, res |-> jwt_decode(token, SECRET_KEY, now)]
    /\ UNCHANGED <<now, usuarios, emitidos, resp, tablas, req, regs>>

----------------------------------------------------------------------------
(* Session Guard: auth.py:21, 84-117 *)

TablasVacias == [paciente |-> {}, alergia |-> {}, enfermedad |-> {},
                 palink |-> {}, pelink |-> {}]

NoDatos == [usuario |-> NoUsuario, pacientes |-> {}]

\* No guarded request in flight.  A request carries its Authorization header
\* (esquema, token), the locals of the dependencies (payload, usuario), the
\* guard's outcome, the response, and for POST /paciente the body, the open
\* transaction tx and the keys it was given.  antes, decodedAt and
\* inactivoAlInicio record the tables and the user's flag when the request
\* arrived and the clock when the token was decoded.
ReqLibre ==
    [ruta |-> "libre", pc |-> "libre", esquema |-> "", token |-> NoToken,
     payload |-> DecodeError(""), usuario |-> NoUsuario, guard |-> "",
     status |-> 0, www |-> FALSE, detail |-> "", datos |-> NoDatos,
     alergias |-> <<>>, enfermedades |-> <<>>, tx |-> TablasVacias,
     pid |-> 0, aids |-> <<>>, eids |-> <<>>, falloEn |-> "",
     antes |-> TablasVacias, decodedAt |-> 0, inactivoAlInicio |-> FALSE]

Rechazos == {"MissingCredential", "InvalidCredential", "InactiveAccount"}

\* the first statement of each protected handler
Cuerpo(ruta) ==
    CASE ruta = "me" -> "leer_usuario_actual"
      [] ruta = "paciente" -> "create_paciente"
      [] ruta = "pacientes" -> "get_pacientes"

\* The 401 is built and returned instead of raised: the handler goes on.
Rechazar401_SinRaise(r, motivo, detail) ==
    [r EXCEPT !.pc = Cuerpo(r.ruta), !.guard = motivo, !.status = 401, !.www = TRUE,
              !.detail = detail]

\* raise credentials_exception (auth.py:89-93), or OAuth2PasswordBearer's own 401
Rechazar401(r, motivo, detail) ==
    [r EXCEPT !.pc = "fin", !.guard = motivo, !.status = 401, !.www = TRUE,
              !.detail = detail]

\* oauth2_scheme = OAuth2PasswordBearer(tokenUrl="token"): the Authorization
\* header must be there with the scheme "bearer"; its parameter is the token.
oauth2_scheme ==
    /\ req.pc = "oauth2_scheme"
    /\ req' = IF req.esquema # "bearer"
              THEN Rechazar401(req, "MissingCredential", "Not authenticated")
              ELSE [req EXCEPT !.pc = "obtener_usuario_actual"]
    /\ UNCHANGED <<now, usuarios, emitidos, dec, resp, tablas, regs>>

\* obtener_usuario_actual(token, session)
obtener_usuario_actual ==
    /\ req.pc = "obtener_usuario_actual"
    /\ LET payload == jwt_decode(req.token, SECRET_KEY, now)
           username == payload.sub
           usuario == obtener_usuario_por_username(usuarios, username)
           r == [req EXCEPT !.payload = payload, !.decodedAt = now]
           detail == "No se pudieron validar las credenciales"
       IN  req' = IF ~payload.ok THEN Rechazar401(r, "InvalidCredential", detail)
                  ELSE IF username = Ausente THEN Rechazar401(r, "InvalidCredential", detail)
                  ELSE IF usuario = NoUsuario THEN Rechazar401(r, "InvalidCredential", detail)
                  ELSE [r EXCEPT !.usuario = usuario,
                                 !.pc = "obtener_usuario_activo_actual"]
    /\ UNCHANGED <<now, usuarios, emitidos, dec, resp, tablas, regs>>

\* The active flag is not looked at.
obtener_usuario_activo_actual_SinCheck ==
    /\ req.pc = "obtener_usuario_activo_actual"
    /\ req' = [req EXCEPT !.pc = Cuerpo(req.ruta), !.guard = "Authorized"]
    /\ UNCHANGED <<now, usuarios, emitidos, dec, resp, tablas, regs>>

\* obtener_usuario_activo_actual(usuario_actual)
obtener_usuario_activo_actual ==
    /\ req.pc = "obtener_usuario_activo_actual"
    /\ req' = IF ~req.usuario.activo
              THEN [req EXCEPT !.pc = "fin", !.guard = "InactiveAccount",
                               !.status = 400, !.detail = "Usuario inactivo"]
              ELSE [req EXCEPT !.pc = Cuerpo(req.ruta), !.guard = "Authorized"]
    /\ UNCHANGED <<now, usuarios, emitidos, dec, resp, tablas, regs>>

----------------------------------------------------------------------------
(* Protected routes: main.py:89-246 *)

\* A guarded request arrives: route, Authorization header and, for
\* POST /paciente, the lists of allergy and disease titles of the body.
Solicitar(ruta, esquema, token, alergias, enfermedades) ==
    /\ req.ruta = "libre"
    /\ LET u == obtener_usuario_por_username(usuarios, token.claims.sub)
       IN  req' = [ReqLibre EXCEPT !.ruta = ruta, !.pc = "oauth2_scheme",
                                   !.esquema = esquema, !.token = token,
                                   !.alergias = alergias, !.enfermedades = enfermedades,
                                   !.antes = tablas,
                                   !.inactivoAlInicio = (u # NoUsuario /\ ~u.activo)]
    /\ UNCHANGED <<now, usuarios, emitidos, dec, resp, tablas, regs>>

\* GET /usuarios/me: main.py:89-99
leer_usuario_actual ==
    /\ req.pc = "leer_usuario_actual"
    /\ req' = [req EXCEPT !.pc = "fin", !.status = 200,
                          !.datos = [NoDatos EXCEPT !.usuario = req.usuario]]
    /\ UNCHANGED <<now, usuarios, emitidos, dec, resp, tablas, regs>>

\* The rows a session sees: the committed ones and those of its transaction
Visibles(t, tx, tabla) == t[tabla] \cup tx[tabla]

\* the patients with their linked allergies and diseases (main.py:197-241)
ListaPacientes(t) ==
    {[pacienteID |-> p.pacienteID, sNombre |-> p.sNombre,
      alergias |-> {a \in t.alergia :
                       [pacienteID |-> p.pacienteID, alergiaID |-> a.alergiaID] \in t.palink},
      enfermedades |-> {e \in t.enfermedad :
                       [pacienteID |-> p.pacienteID, enfermedadID |-> e.enfermedadID] \in t.pelink}]
        : p \in t.paciente}

\* GET /pacientes: main.py:189-246; a query that raises gives 500
get_pacientes ==
    /\ req.pc = "get_pacientes"
    /\ \/ req' = [req EXCEPT !.pc = "fin", !.status = 200,
                             !.datos = [NoDatos EXCEPT !.pacientes = ListaPacientes(tablas)]]
       \/ req' = [req EXCEPT !.pc = "fin", !.status = 500, !.detail = "Error",
                             !.falloEn = "get_pacientes"]
    /\ UNCHANGED <<now, usuarios, emitidos, dec, resp, tablas, regs>>

\* Where create_paciente goes on after a step: the allergies not yet
\* inserted, then the diseases, then the commit.
Sigue(r) ==
    IF Len(r.aids) < Len(r.alergias) THEN "alergias"
    ELSE IF Len(r.eids) < Len(r.enfermedades) THEN "enfermedades"
    ELSE "commit"

\* main.py:114-121: session.add(paciente); session.flush()
create_paciente ==
    /\ req.pc = "create_paciente"
    /\ LET id == NextID(Visibles(tablas, req.tx, "paciente"), "pacienteID")
           paciente == [pacienteID |-> id, sNombre |-> "p"]
           r == [req EXCEPT !.pid = id, !.tx.paciente = @ \cup {paciente}]
       IN  req' = [r EXCEPT !.pc = Sigue(r)]
    /\ UNCHANGED <<now, usuarios, emitidos, dec, resp, tablas, regs>>

\* main.py:128-147, one turn of the loop: the allergy is added and flushed,
\* then the link row is added to the session.
crear_alergia ==
    /\ req.pc = "alergias"
    /\ LET id == NextID(Visibles(tablas, req.tx, "alergia"), "alergiaID")
           alergia == [alergiaID |-> id, sTitulo |-> req.alergias[Len(req.aids) + 1]]
           link == [pacienteID |-> req.pid, alergiaID |-> id]
           r == [req EXCEPT !.aids = Append(@, id),
                            !.tx.alergia = @ \cup {alergia},
                            !.tx.palink = @ \cup {link}]
       IN  req' = [r EXCEPT !.pc = Sigue(r)]
    /\ UNCHANGED <<now, usuarios, emitidos, dec, resp, tablas, regs>>

\* main.py:151-170, one turn of the loop
crear_enfermedad ==
    /\ req.pc = "enfermedades"
    /\ LET id == NextID(Visibles(tablas, req.tx, "enfermedad"), "enfermedadID")
           enfermedad == [enfermedadID |-> id,
                          sTitulo |-> req.enfermedades[Len(req.eids) + 1]]
           link == [pacienteID |-> req.pid, enfermedadID |-> id]
           r == [req EXCEPT !.eids = Append(@, id),
                            !.tx.enfermedad = @ \cup {enfermedad},
                            !.tx.pelink = @ \cup {link}]
       IN  req' = [r EXCEPT !.pc = Sigue(r)]
    /\ UNCHANGED <<now, usuarios, emitidos, dec, resp, tablas, regs>>

\* session.commit(): the rows of the transaction become the tables' rows
Commit(t, tx) == [tabla \in DOMAIN t |-> t[tabla] \cup tx[tabla]]

\* The except branch commits what was flushed instead of rolling back.
Rollback_Commit(t, tx) == Commit(t, tx)

\* session.rollback(): the rows of the transaction are dropped
Rollback(t, tx) == t

\* main.py:172
commit_paciente ==
    /\ req.pc = "commit"
    /\ tablas' = Commit(tablas, req.tx)
    /\ req' = [req EXCEPT !.pc = "respuesta", !.tx = TablasVacias]
    /\ UNCHANGED <<now, usuarios, emitidos, dec, resp, regs>>

\* main.py:174-182: PacienteResponse(...) of the committed patient
responder_paciente ==
    /\ req.pc = "respuesta"
    /\ req' = [req EXCEPT !.pc = "fin", !.status = 200,
                  !.datos = [NoDatos EXCEPT !.pacientes =
                      {[pacienteID |-> req.pid, sNombre |-> "p",
                        alergias |-> {[alergiaID |-> req.aids[k],
                                       sTitulo |-> req.alergias[k]] : k \in DOMAIN req.aids},
                        enfermedades |-> {[enfermedadID |-> req.eids[k],
                                       sTitulo |-> req.enfermedades[k]] : k \in DOMAIN req.eids}]}]]
    /\ UNCHANGED <<now, usuarios, emitidos, dec, resp, tablas, regs>>

PasosPaciente == {"create_paciente", "alergias", "enfermedades", "commit", "respuesta"}

\* main.py:184-186: a statement of the try block raises (the flush of an
\* insert, the commit, or the reload of the committed patient for the
\* response); session.rollback() drops the open transaction, the answer is 500.
fallar_paciente ==
    /\ req.pc \in PasosPaciente
    /\ tablas' = Rollback(tablas, req.tx)
    /\ req' = [req EXCEPT !.pc = "fin", !.status = 500, !.detail = "Error",
                          !.falloEn = req.pc, !.tx = TablasVacias]
    /\ UNCHANGED <<now, usuarios, emitidos, dec, resp, regs>>

\* The response is sent and the request is over.
Cerrar ==
    /\ req.pc = "fin"
    /\ req' = ReqLibre
    /\ UNCHANGED <<now, usuarios, emitidos, dec, resp, tablas, regs>>

----------------------------------------------------------------------------
(* POST /registro on several workers: main.py:39-60, statement by statement *)

RegLibre == [pc |-> "libre", username |-> "", email |-> "", password |-> "",
             status |-> 0, detail |-> ""]
RegsLibres == [i \in 1..MaxRegs |-> RegLibre]

\* The request arrives at a worker.
LlegaRegistro(i, username, email, password) ==
    /\ regs[i].pc = "libre"
    /\ regs' = [regs EXCEPT ![i] = [RegLibre EXCEPT !.pc = "username", !.username = username,
                                                    !.email = email, !.password = password]]
    /\ UNCHANGED <<now, usuarios, emitidos, dec, resp, tablas, req>>

\* main.py:40-43
verificar_username(i) ==
    /\ regs[i].pc = "username"
    /\ regs' = IF obtener_usuario_por_username(usuarios, regs[i].username) # NoUsuario
               THEN [regs EXCEPT ![i].pc = "fin", ![i].status = 400,
                                 ![i].detail = "El usuario ya existe"]
               ELSE [regs EXCEPT ![i].pc = "email"]
    /\ UNCHANGED <<now, usuarios, emitidos, dec, resp, tablas, req>>

\* main.py:46-49
verificar_email(i) ==
    /\ regs[i].pc = "email"
    /\ regs' = IF obtener_usuario_por_email(usuarios, regs[i].email) # NoUsuario
               THEN [regs EXCEPT ![i].pc = "fin", ![i].status = 400,
                                 ![i].detail = "El email ya esta registrado"]
               ELSE [regs EXCEPT ![i].pc = "commit"]
    /\ UNCHANGED <<now, usuarios, emitidos, dec, resp, tablas, req>>

\* The directory's unique constraints on username and email (the table's
\* definition is the directory's): an insert that breaks one is refused.
ViolaUnicidad(dir, usuario) ==
    \E u \in dir : u.username = usuario.username \/ u.email = usuario.email

\* main.py:52-67: session.add(usuario); session.commit().  The commit is not
\* inside a try: a refused insert leaves the handler as an unhandled
\* exception, which the server answers with 500.
insertar_usuario(i, salt) ==
    /\ regs[i].pc = "commit"
    /\ LET usuario == NuevoUsuario(usuarios, regs[i].username, regs[i].email,
                                   regs[i].password, salt)
       IN  IF ViolaUnicidad(usuarios, usuario)
           THEN /\ regs' = [regs EXCEPT ![i].pc = "fin", ![i].status = 500,
                                        ![i].detail = "Internal Server Error"]
                /\ UNCHANGED usuarios
           ELSE /\ usuarios' = usuarios \cup {usuario}
                /\ regs' = [regs EXCEPT ![i].pc = "fin", ![i].status = 200]
    /\ UNCHANGED <<now, emitidos, dec, resp, tablas, req>>

\* The response is sent and the worker takes another request.
TerminaRegistro(i) ==
    /\ regs[i].pc = "fin"
    /\ regs' = [regs EXCEPT ![i] = RegLibre]
    /\ UNCHANGED <<now, usuarios, emitidos, dec, resp, tablas, req>>

----------------------------------------------------------------------------
(* Specifications *)


\* The state after init_db(): empty tables, nothing issued, no request.
Init ==
    /\ now = 0
    /\ usuarios = {}
    /\ emitidos = {}
    /\ dec = NoDec
    /\ resp = NoResp
    /\ tablas = TablasVacias
    /\ req = ReqLibre
    /\ regs = RegsLibres

\* The Authorization headers a client may send: none, another scheme, or
\* bearer with a token that was issued or forged.
Cabeceras ==
    {[esquema |-> "", token |-> NoToken]}
    \cup {[esquema |-> "basic", token |-> e.tok] : e \in emitidos}
    \cup {[esquema |-> "bearer", token |-> t] : t \in {e.tok : e \in emitidos} \cup Forjados}

Titulos == {"polen"}
Listas == UNION {[1..n -> Titulos] : n \in 0..MaxLista}

\* The server on one event loop: a handler without await runs as one step;
\* a guarded request runs dependency by dependency, then its body.

\* Registration and login with one email and one password per name
EmailDe(username) == IF username = "" THEN "b@x.com" ELSE "a@x.com"

Cuentas ==
    \/ \E username \in Names : registrar_usuario(username, EmailDe(username), "pw123", "s1")
    \/ \E username \in Names : desactivar_usuario(username)
    \/ login("ana", "pw123")

Guardia ==
    \/ oauth2_scheme
    \/ obtener_usuario_actual
    \/ obtener_usuario_activo_actual
    \/ Cerrar

\* The Session Guard before the read-only routes, with every kind of token.
Next ==
    \/ Tick(InstantesLogin)
    \/ Cuentas
    \/ \E sub \in {"", Ausente} : emitir(sub, None)
    \/ \E c \in Cabeceras : Solicitar("me", c.esquema, c.token, <<>>, <<>>)
    \/ \E c \in Cabeceras : Solicitar("pacientes", c.esquema, c.token, <<>>, <<>>)
    \/ Guardia
    \/ leer_usuario_actual
    \/ get_pacientes

Spec == Init /\ [][Next]_vars

\* Registration, login and token issuance with every input.
NextAuth ==
    \/ Tick(InstantesAuth)
    \/ \E username \in Names, email \in Emails, password \in Passwords, salt \in Salts :
          registrar_usuario(username, email, password, salt)
    \/ \E username \in LoginNames, password \in Passwords : login(username, password)
    \/ \E ttl \in {None, Some(0), Some(30)} : emitir("ana", ttl)

SpecAuth == Init /\ [][NextAuth]_vars

\* POST /paciente and the other protected routes for one account.
CabecerasPaciente ==
    {c \in Cabeceras : c.esquema # "basic" /\
                       (c.token \in Forjados => c.token = jwt_encode([sub |-> "ana", exp |-> 45], OTRA_CLAVE))}

NextPaciente ==
    \/ registrar_usuario("ana", "a@x.com", "pw123", "s1")
    \/ desactivar_usuario("ana")
    \/ login("ana", "pw123")
    \/ \E c \in CabecerasPaciente : Solicitar("me", c.esquema, c.token, <<>>, <<>>)
    \/ \E c \in CabecerasPaciente : Solicitar("pacientes", c.esquema, c.token, <<>>, <<>>)
    \/ \E c \in CabecerasPaciente, als \in Listas, ens \in Listas :
          /\ Cardinality(tablas.paciente) < MaxPacientes
          /\ Solicitar("paciente", c.esquema, c.token, als, ens)
    \/ Guardia
    \/ leer_usuario_actual
    \/ get_pacientes
    \/ create_paciente
    \/ crear_alergia
    \/ crear_enfermedad
    \/ commit_paciente
    \/ responder_paciente
    \/ fallar_paciente

SpecPaciente == Init /\ [][NextPaciente]_vars

\* A step of the guarded request in flight.  The dependencies and the handler
\* are straight-line code and loops over the request's lists: once a request
\* has arrived the server keeps running it.
PasoReq ==
    \/ Guardia
    \/ leer_usuario_actual
    \/ get_pacientes
    \/ create_paciente
    \/ crear_alergia
    \/ crear_enfermedad
    \/ commit_paciente
    \/ responder_paciente
    \/ fallar_paciente

SpecPacienteJusto == SpecPaciente /\ WF_vars(PasoReq)

\* The Token Codec alone: tokens are issued for any subject and ttl and
\* decoded at any later instant.
NextToken ==
    \/ Tick(Instantes)
    \/ \E sub \in Subs, ttl \in TTLs : emitir(sub, ttl)
    \/ \E t \in {e.tok : e \in emitidos} \cup Forjados : decodificar(t)

SpecToken == Init /\ [][NextToken]_vars

\* Registrations on several workers over one directory: the statements of
\* different requests interleave.
NextConc ==
    \/ \E i \in 1..MaxRegs, username \in Names, email \in Emails :
          LlegaRegistro(i, username, email, "pw123")
    \/ \E i \in 1..MaxRegs : verificar_username(i)
    \/ \E i \in 1..MaxRegs : verificar_email(i)
    \/ \E i \in 1..MaxRegs : insertar_usuario(i, "s1")
    \/ \E i \in 1..MaxRegs : TerminaRegistro(i)

SpecConc == Init /\ [][NextConc]_vars

----------------------------------------------------------------------------
(* Claims about concurrent registration (SpecConc) *)

\* C10: however the statements of POST /registro requests with the same
\* username or email interleave, the directory never holds two users with the
\* same username or the same email, at most one of the requests succeeds, and
\* every request that loses is answered with 400.
C10_UnicidadConcurrente ==
    /\ \A u, w \in usuarios : u # w => u.username # w.username /\ u.email # w.email
    /\ \A i, j \in 1..MaxRegs :
          (/\ i # j
           /\ regs[i].status = 200
           /\ regs[j].status = 200)
          => regs[i].username # regs[j].username /\ regs[i].email # regs[j].email
    /\ \A i \in 1..MaxRegs :
          regs[i].pc = "fin" /\ regs[i].status # 200 => regs[i].status = 400

----------------------------------------------------------------------------
(* Claims about registration, login and issuance (SpecAuth) *)

\* a user with that username whose stored hash the password verifies against
Acreditado(dir, username, password) ==
    {u \in dir : u.username = username /\ verificar_password(password, u.hashed_password)}

\* the one 401 of POST /token
LoginRechazado(r) ==
    /\ r.status = 401
    /\ r.detail = "Usuario o contrasena incorrectos"
    /\ r.www
    /\ r.token = NoToken
    /\ r.token_type = ""

\* C4: autenticar_usuario returns the stored user exactly when the username
\* exists and the password verifies against its hash; an unknown username and
\* a wrong password give the same "no user", and POST /token answers both with
\* the same 401, detail and WWW-Authenticate: Bearer, and issues no token.
C4_Autenticacion ==
    [][\A username \in LoginNames, password \in Passwords :
          login(username, password) =>
              LET ok == Acreditado(usuarios, username, password)
                  usuario == autenticar_usuario(usuarios, username, password)
              IN  /\ ok # {} => usuario \in ok /\ resp'.status = 200
                                 /\ resp'.token.claims.sub = username
                  /\ ok = {} => /\ usuario = NoUsuario
                                /\ LoginRechazado(resp')
                                /\ emitidos' = emitidos]_vars

\* C4 witness: a login with a wrong password for an existing user was refused
C4_Witness ==
    /\ resp.op = "token"
    /\ resp.status = 401
    /\ \E u \in usuarios : u.username = resp.username
                           /\ ~verificar_password(resp.password, u.hashed_password)

C8_Expiracion ==
    \A e \in emitidos :
        /\ e.ttl.some => e.tok.claims.exp = e.t0 + e.ttl.v
        /\ ~e.ttl.some => e.tok.claims.exp = e.t0 + DEFAULT_EXPIRE_MINUTES
        /\ e.por = "login" =>
              /\ e.tok.claims.exp = e.t0 + ACCESS_TOKEN_EXPIRE_MINUTES
              /\ \E u \in usuarios : u.username = e.tok.claims.sub

----------------------------------------------------------------------------
(* Claims about the Session Guard (Spec) *)

\* The guard has decided the request in flight.
Decidido == req.guard # ""

\* the token's signature verifies against the server secret
FirmaValida(token) ==
    token.forma = "jwt" /\ token.firma = HS256(SECRET_KEY, token.claims)

\* C1: with an unexpired token that login issued, a guarded request is
\* Authorized while the user's active flag is true, and every request that
\* arrives after the flag was set to false is rejected as InactiveAccount,
\* without a new login.
C1_ReResuelve ==
    \A e \in emitidos :
        (/\ e.por = "login"
         /\ Decidido
         /\ req.esquema = "bearer"
         /\ req.token = e.tok
         /\ req.decodedAt < e.tok.claims.exp)
        => /\ \A u \in usuarios :
                 u.username = e.tok.claims.sub /\ u.activo => req.guard = "Authorized"
           /\ req.inactivoAlInicio => req.guard = "InactiveAccount"

\* C1 witness: a request with a login token, sent after the user was
\* deactivated, was rejected as InactiveAccount
C1_Witness ==
    /\ req.guard = "InactiveAccount"
    /\ req.inactivoAlInicio
    /\ req.decodedAt < req.token.claims.exp
    /\ \E e \in emitidos : e.por = "login" /\ e.tok = req.token

\* C2: a guarded request is Authorized only if the token's signature verifies
\* against the server secret, its expires_at is in the future, its subject is
\* present and names a user of the directory, and that user is active; a
\* forged or altered token is never Authorized.
C2_SinFalsoAceptado ==
    req.guard = "Authorized" =>
        /\ FirmaValida(req.token)
        /\ req.token \notin Forjados
        /\ req.token.claims.exp > req.decodedAt
        /\ req.token.claims.sub # Ausente
        /\ \E u \in usuarios : /\ u.username = req.token.claims.sub
                               /\ u.usuarioID = req.usuario.usuarioID
        /\ req.usuario.activo

\* the request was rejected with 401 and WWW-Authenticate: Bearer
Rechazado401 ==
    req.guard \in {"MissingCredential", "InvalidCredential"} /\ req.status = 401 /\ req.www

\* C5: the first failing step decides.  No bearer credential, a token that
\* does not decode, a missing or empty subject, a subject that names no user:
\* each is a 401 with WWW-Authenticate: Bearer.  InactiveAccount (400) only for
\* a token that decoded, with a subject, of an existing user who is inactive.
C5_Clasificacion ==
    Decidido =>
        LET bearer == req.esquema = "bearer"
            sub == req.payload.sub
        IN  /\ ~bearer => Rechazado401
            /\ bearer /\ ~req.payload.ok => Rechazado401
            /\ bearer /\ req.payload.ok /\ sub \in {Ausente, ""} => Rechazado401
            /\ bearer /\ req.payload.ok /\ sub \notin {Ausente, ""}
                  /\ req.usuario = NoUsuario => Rechazado401
            /\ req.guard = "InactiveAccount" =>
                  /\ req.status = 400
                  /\ bearer /\ req.payload.ok /\ sub # Ausente
                  /\ req.usuario # NoUsuario /\ ~req.usuario.activo

----------------------------------------------------------------------------
(* Claims about the protected routes (SpecPaciente) *)

\* the steps of create_paciente the transaction is open in
AntesDelCommit == {"create_paciente", "alergias", "enfermedades", "commit"}

\* the rows of the request in flight that the tables hold
PersistidoDeReq ==
    /\ [pacienteID |-> req.pid, sNombre |-> "p"] \in tablas.paciente
    /\ Len(req.aids) = Len(req.alergias)
    /\ Len(req.eids) = Len(req.enfermedades)
    /\ \A k \in DOMAIN req.alergias :
          [alergiaID |-> req.aids[k], sTitulo |-> req.alergias[k]] \in tablas.alergia
    /\ \A k \in DOMAIN req.enfermedades :
          [enfermedadID |-> req.eids[k], sTitulo |-> req.enfermedades[k]] \in tablas.enfermedad
    /\ {l \in tablas.palink : l.pacienteID = req.pid}
          = {[pacienteID |-> req.pid, alergiaID |-> req.aids[k]] : k \in DOMAIN req.aids}
    /\ Cardinality({l \in tablas.palink : l.pacienteID = req.pid}) = Len(req.alergias)
    /\ {l \in tablas.pelink : l.pacienteID = req.pid}
          = {[pacienteID |-> req.pid, enfermedadID |-> req.eids[k]] : k \in DOMAIN req.eids}
    /\ Cardinality({l \in tablas.pelink : l.pacienteID = req.pid}) = Len(req.enfermedades)

\* C7: POST /paciente is atomic.  When inserting the patient, an allergy, a
\* disease or a link row, or the commit, fails, nothing of the request is in
\* the tables and the answer is an error; when the request succeeds the
\* patient, every allergy and disease and exactly one link row for each are in
\* the tables.  Until the commit the tables are those the request found.
C7_Atomico ==
    req.ruta = "paciente" =>
        /\ req.pc \in AntesDelCommit => tablas = req.antes
        /\ req.falloEn \in AntesDelCommit =>
              req.pc = "fin" /\ req.status = 500 /\ tablas = req.antes
        /\ req.status = 200 => PersistidoDeReq

\* C7 witness: a request with two allergies failed after the second was
\* flushed, and the tables are as it found them
C7_Witness ==
    /\ req.ruta = "paciente"
    /\ req.pc = "fin"
    /\ req.status = 500
    /\ req.falloEn \in {"enfermedades", "commit"}
    /\ Len(req.aids) = 2
    /\ tablas = req.antes

\* the handler body of the request in flight has run a statement
CuerpoEjecutado ==
    \/ req.pc \in PasosPaciente \cup {"leer_usuario_actual", "get_pacientes"}
    \/ req.falloEn # ""
    \/ req.datos # NoDatos
    \/ req.pid # 0
    \/ req.status \in {200, 500}

C9_Estado ==
    /\ CuerpoEjecutado => req.guard = "Authorized"
    /\ req.guard \in Rechazos =>
          /\ req.pc = "fin"
          /\ req.status \in {400, 401}
          /\ req.datos = NoDatos
          /\ req.tx = TablasVacias
          /\ tablas = req.antes

C9_Paso ==
    /\ req.pc = "fin" => req' = req \/ req' = ReqLibre
    /\ req.guard # "" /\ req'.ruta # "libre" => req'.guard = req.guard
    /\ tablas' # tablas => req.guard = "Authorized" /\ req.ruta = "paciente"

\* C9: the body of GET /usuarios/me, POST /paciente and GET /pacientes runs
\* only after the guard reached Authorized.  A rejected request ends with its
\* rejection, is not retried, leaves the patient tables as they were and
\* returns no user and no patient data; a request's outcome, once reached,
\* stays, and every request reaches one.
C9_RutasProtegidas ==
    /\ []C9_Estado
    /\ [][C9_Paso]_vars
    /\ (req.ruta # "libre") ~> (req.pc = "fin")

\* C9 witness: a GET /pacientes with a forged token ended rejected, without
\* data, while the patient table holds a patient of an earlier request
C9_Witness ==
    /\ req.ruta = "pacientes"
    /\ req.guard = "InvalidCredential"
    /\ req.pc = "fin"
    /\ req.datos = NoDatos
    /\ tablas.paciente # {}

----------------------------------------------------------------------------
(* Claims about the Token Codec *)

\* The tokens of the log issued for a subject with a caller-supplied ttl
EmitidosConTTL == {e \in emitidos : e.ttl.some /\ e.tok.claims.sub # Ausente}

\* C3: a token made by crear_access_token({sub: S}, T) at t0 decodes to subject
\* S at every time before t0 + T, and decoding fails as expired at every time t
\* with expires_at <= t, the instant t = t0 + T included.
C3_RoundTripAndExpiry ==
    \A e \in EmitidosConTTL :
        dec.tok = e.tok /\ dec.en >= e.t0 =>
            /\ dec.en < e.t0 + e.ttl.v => dec.res.ok /\ dec.res.sub = e.tok.claims.sub
            /\ e.tok.claims.exp <= dec.en => ~dec.res.ok /\ dec.res.error = "Expired"
            /\ dec.en = e.t0 + e.ttl.v => ~dec.res.ok /\ dec.res.error = "Expired"

====
